---------------------------- MODULE Spec2Model ----------------------------
(***************************************************************************)
(* A model of element-scroller (src/src/index.ts): the per-frame animation *)
(* engine of makeScroller, the process-wide frame-time probe and the       *)
(* process-wide wheel tracker.                                             *)
(*                                                                         *)
(* Numbers.  Lengths, positions and scrolling velocities are fixed-point   *)
(* numbers: the integer n stands for n / Px pixels.  A product with a      *)
(* fraction is rounded to the nearest unit, ties to even, as the code's    *)
(* floating point arithmetic rounds to the nearest representable number.   *)
(* Time is counted in ticks of 1000/120 ms, so that STANDARD_FRAME_TIME    *)
(* (1000/60 ms) is 2 ticks and one second is 120 ticks.  A friction        *)
(* coefficient f is the integer f * FrictionUnit.  Gliding speeds are in   *)
(* units per second.  Date.now() is in milliseconds.                       *)
(*                                                                         *)
(* Timestamps.  The code only ever subtracts one frame timestamp from      *)
(* another (lines 23 and 146), so the origin of the host's clock is free:  *)
(* the model measures each frame's timestamp from the frame the instance   *)
(* recorded last, and a recorded lastFrameTime is therefore Origin.        *)
(*                                                                         *)
(* null / undefined is the empty tuple <<>>, a present value v is <<v>>;   *)
(* a velocity vector is the pair <<x, y>>.                                 *)
(***************************************************************************)
EXTENDS Integers, Sequences, FiniteSets

VARIABLES
    \* the surface (HTMLElement) and the host
    element,          \* [left, top]: the live scrollLeft / scrollTop
    scrollLength,     \* [width, height]: scrollWidth - clientWidth, ...
    pending,          \* handles of the render requests not yet run or cancelled
    \* process-wide state
    minFrameTime,     \* line 18
    frames,           \* line 20
    probeLastFrameTime, \* line 21 (the block-scoped lastFrameTime)
    probePending,     \* whether a frameTimeLoop request is outstanding
    lastGlobalWheel,  \* line 35
    ignoreEvent,      \* line 36
    dateNow,          \* Date.now()
    \* the instance (self and the closure of makeScroller)
    selfFriction,     \* self.friction
    wheelFriction,    \* self.wheelFriction
    flipWheel,        \* self.flipWheel
    doHandleWheel,    \* whether the wheel listener is bound (line 123)
    listening,        \* whether the element listeners are still bound
    disposed,         \* self.disposed
    friction,         \* line 115
    currentPosition,  \* line 116
    scrolling,        \* line 117
    gliding,          \* line 118
    frameId,          \* line 119
    lastFrameTime,    \* line 120
    \* history
    lastOp,           \* the handler that ran last, with its arguments
    calls,            \* how many calls and events the instance has seen
    goal              \* the clamped coordinates the last scrollTo calls asked for

hostVars == <<element, scrollLength, pending>>
probeVars == <<minFrameTime, frames, probeLastFrameTime, probePending>>
wheelVars == <<lastGlobalWheel, ignoreEvent, dateNow>>
optionVars == <<selfFriction, wheelFriction, flipWheel, doHandleWheel>>
motionVars == <<friction, currentPosition, scrolling, gliding, frameId, lastFrameTime>>
vars == <<hostVars, probeVars, wheelVars, optionVars, listening, disposed,
          motionVars, lastOp, calls, goal>>

-----------------------------------------------------------------------------
(* Representation *)

Null == <<>>
Some(v) == <<v>>

\* Units per pixel.
Px == 10
\* Number.POSITIVE_INFINITY as a scrollTo coordinate: larger than any length.
Infinity == 1000000
\* Friction 1 (the coefficient f is stored as f * FrictionUnit).
FrictionUnit == 20
\* 1000 / 60 ms in ticks.
STANDARD_FRAME_TIME == 2
\* 1000 ms in ticks.
Second == 120
\* The timestamp of the frame the instance recorded last.
Origin == 0
\* friction: frictionOption ?? 0.2 (line 103), as a multiple of 1 / FrictionUnit
DefaultFriction == 4
\* wheelFriction ?? 0.25 (line 105)
DefaultWheelFriction == 5

Abs(n) == IF n < 0 THEN -n ELSE n

\* n / d rounded to the nearest integer, ties to even (d > 0).
Round(n, d) ==
    LET q == n \div d
        r == n % d
    IN  IF 2 * r < d THEN q
        ELSE IF 2 * r > d THEN q + 1
        ELSE IF q % 2 = 0 THEN q ELSE q + 1

-----------------------------------------------------------------------------
(* Bounds and input sets *)

\* calls that would push a scrolling velocity past MaxVelocity pixels are left out
MaxVelocity == 6
\* the host's frame request handles
MaxHandles == 3
\* the calls and events of a run (frames are not counted)
MaxCalls == 3
\* Date.now() does not pass MaxDate
MaxDate == 1800

Lengths == {[width |-> 4 * Px, height |-> 2 * Px], [width |-> 2 * Px, height |-> 0]}
InitialLengths == {[width |-> 4 * Px, height |-> 2 * Px]}
Offsets == {[left |-> 0, top |-> 0], [left |-> 3 * Px, top |-> Px]}
InitialOffsets == {[left |-> 3 * Px, top |-> Px]}
LeftTargets == {Null, Some(0), Some(2 * Px), Some(Infinity)}
TopTargets == {Null, Some(Infinity)}
LeftDeltas == {Null, Some(-2 * Px), Some(4 * Px)}
TopDeltas == {Null, Some(2 * Px)}
FrictionOptions == {Null, Some(0), Some(FrictionUnit)}
SelfFrictions == {0, 10}
LeftSpeeds == {Null, Some(60 * Px)}
TopSpeeds == {Null, Some(0), Some(-60 * Px)}
FrameGaps == {0, STANDARD_FRAME_TIME, 2 * STANDARD_FRAME_TIME}
MinFrameTimes == {0, STANDARD_FRAME_TIME}

-----------------------------------------------------------------------------
(* Lines 1-3 *)

max(a, b) == IF a >= b THEN a ELSE b
min(a, b) == IF a <= b THEN a ELSE b
clampNoTop(bottom, value, top) == max(bottom, value)
clamp(bottom, value, top) == max(bottom, min(top, value))
isWithin(lo, value, hi) == value >= lo /\ value <= hi

-----------------------------------------------------------------------------
(* The instance: makeScroller, lines 97-272 *)

getPosition == [left |-> element.left, top |-> element.top]

getScrollLength == scrollLength

\* requestAnimationFrame hands out a handle it has not handed out before: one
\* that is neither outstanding nor still held in frameId
FreshHandle(fid, queue) ==
    CHOOSE h \in 1..MaxHandles : h \notin queue /\ Some(h) # fid

requestRenderAlways(fid, queue) ==
    LET h == FreshHandle(fid, queue)
    IN  [frameId |-> Some(h), pending |-> queue \cup {h}]

\* requestRender (lines 187-189) on frameId fid and the host's queue
requestRender(fid, queue) ==
    IF fid = Null
    THEN LET h == FreshHandle(fid, queue)
         IN  [frameId |-> Some(h), pending |-> queue \cup {h}]
    ELSE [frameId |-> fid, pending |-> queue]

\* scrolling?.[i] || 0
Pending(i) == IF scrolling = Null THEN 0 ELSE scrolling[i]

FrictionNoFallback(fopt) == IF fopt # Null THEN fopt[1] ELSE selfFriction

\* rest.friction || self.friction (line 209)
FrictionInEffect(fopt) ==
    IF fopt # Null /\ fopt[1] # 0 THEN fopt[1] ELSE selfFriction

scrollByReplaces(left, top, fopt) ==
    LET r == requestRender(frameId, pending)
    IN  /\ Abs(Pending(1) + left) <= MaxVelocity * Px
        /\ Abs(Pending(2) + top) <= MaxVelocity * Px
        /\ friction' = IF fopt # Null /\ fopt[1] # 0 THEN fopt[1] ELSE selfFriction
        /\ scrolling' = <<left, top>>
        /\ frameId' = r.frameId
        /\ pending' = r.pending
        /\ UNCHANGED <<element, scrollLength, probeVars, optionVars,
                       listening, disposed, currentPosition, gliding, lastFrameTime>>

\* scrollBy (lines 208-212) with left and top already defaulted to 0
scrollByNumbers(left, top, fopt) ==
    LET r == requestRender(frameId, pending)
    IN  /\ Abs(Pending(1) + left) <= MaxVelocity * Px
        /\ Abs(Pending(2) + top) <= MaxVelocity * Px
        /\ friction' = FrictionInEffect(fopt)
        /\ scrolling' = <<Pending(1) + left, Pending(2) + top>>
        /\ frameId' = r.frameId
        /\ pending' = r.pending
        /\ UNCHANGED <<element, scrollLength, probeVars, optionVars,
                       listening, disposed, currentPosition, gliding, lastFrameTime>>

\* left = 0, top = 0 (line 208); left || 0, top || 0 (line 230)
OrZero(opt) == IF opt = Null THEN 0 ELSE opt[1]

scrollBy(left, top, fopt) ==
    scrollByNumbers(OrZero(left), OrZero(top), fopt)

scrollToFalsy(left, top, fopt) ==
    LET length == getScrollLength
    IN  scrollByNumbers(
            IF left = Null \/ left[1] = 0 THEN 0
            ELSE clamp(0, left[1], length.width) - (currentPosition.left + Pending(1)),
            IF top = Null \/ top[1] = 0 THEN 0
            ELSE clamp(0, top[1], length.height) - (currentPosition.top + Pending(2)),
            fopt)

\* scrollTo (lines 196-203)
scrollTo(left, top, fopt) ==
    LET length == getScrollLength
    IN  scrollByNumbers(
            IF left = Null THEN 0
            ELSE clamp(0, left[1], length.width) - (currentPosition.left + Pending(1)),
            IF top = Null THEN 0
            ELSE clamp(0, top[1], length.height) - (currentPosition.top + Pending(2)),
            fopt)

glidingPerAxis(left, top) ==
    <<IF left = Null THEN (IF gliding = Null THEN 0 ELSE gliding[1])
      ELSE left[1],
      IF top = Null THEN (IF gliding = Null THEN 0 ELSE gliding[2]) ELSE top[1]>>

\* line 230
glidingVector(left, top) == <<OrZero(left), OrZero(top)>>

\* glide (lines 217-232)
glide(left, top) ==
    LET r == requestRender(frameId, pending)
    IN  /\ gliding' = glidingVector(left, top)
        /\ frameId' = r.frameId
        /\ pending' = r.pending
        /\ UNCHANGED <<element, scrollLength, probeVars, wheelVars, optionVars,
                       listening, disposed, friction, currentPosition, scrolling,
                       lastFrameTime>>

\* cancelAnimationFrame
cancelled(fid, queue) == IF fid = Null THEN queue ELSE queue \ {fid[1]}

stoppedNoCancel(fid, queue) ==
    [pending |-> queue, frameId |-> Null, lastFrameTime |-> Null,
     gliding |-> Null, scrolling |-> Null]

stoppedKeepsTime(fid, queue) ==
    [pending |-> cancelled(fid, queue), frameId |-> Null,
     lastFrameTime |-> lastFrameTime, gliding |-> Null, scrolling |-> Null]

\* stop (lines 234-237): the values it leaves
stopped(fid, queue) ==
    [pending |-> cancelled(fid, queue), frameId |-> Null, lastFrameTime |-> Null,
     gliding |-> Null, scrolling |-> Null]

stop ==
    LET s == stopped(frameId, pending)
    IN  /\ pending' = s.pending
        /\ frameId' = s.frameId
        /\ lastFrameTime' = s.lastFrameTime
        /\ gliding' = s.gliding
        /\ scrolling' = s.scrolling
        /\ UNCHANGED <<element, scrollLength, probeVars, wheelVars, optionVars,
                       listening, disposed, friction, currentPosition>>

\* dispose (lines 263-269): stop(), the flag, the listeners; line 268 finds
\* frameId null
dispose ==
    LET s == stopped(frameId, pending)
    IN  /\ pending' = cancelled(s.frameId, s.pending)
        /\ frameId' = s.frameId
        /\ lastFrameTime' = s.lastFrameTime
        /\ gliding' = s.gliding
        /\ scrolling' = s.scrolling
        /\ disposed' = TRUE
        /\ listening' = FALSE
        /\ UNCHANGED <<element, scrollLength, probeVars, wheelVars, optionVars,
                       friction, currentPosition>>

handleScrollAlways ==
    /\ currentPosition' = getPosition
    /\ UNCHANGED <<hostVars, probeVars, wheelVars, optionVars, listening, disposed,
                   friction, scrolling, gliding, frameId, lastFrameTime>>

\* handleScroll (lines 259-261)
handleScroll ==
    /\ currentPosition' = IF frameId = Null THEN getPosition ELSE currentPosition
    /\ UNCHANGED <<hostVars, probeVars, wheelVars, optionVars, listening, disposed,
                   friction, scrolling, gliding, frameId, lastFrameTime>>

\* render, line 155: friction * timeDelta / STANDARD_FRAME_TIME clamped to
\* [0, 1], as a multiple of 1 / AdjustedUnit
AdjustedUnit == FrictionUnit * STANDARD_FRAME_TIME

adjustedFriction(timeDelta) == clamp(0, friction * timeDelta, AdjustedUnit)

\* lines 157-158: x * adjustedFriction
Delta(v, af) == Round(v * af, AdjustedUnit)

BelowCutoffNever(delta) == FALSE

\* abs(delta) < 0.2 (lines 160-161)
BelowCutoff(delta) == 5 * Abs(delta) < Px

NextVelocityNoBoundary(v, delta, position, length) ==
    IF BelowCutoff(delta) THEN 0 ELSE v - delta

\* lines 160-161: the velocity left on an axis
NextVelocity(v, delta, position, length) ==
    IF BelowCutoff(delta) \/ ~isWithin(0, position + delta, length) THEN 0 ELSE v - delta

GlideByNone(speed, timeDelta) == 0

\* lines 170-173: speed * timeDelta / 1000
GlideBy(speed, timeDelta) == Round(speed * timeDelta, Second)

\* render past line 144, for the request with handle h, at timestamp time
renderFrame(h, time) ==
    LET timeDelta == IF lastFrameTime # Null THEN time - lastFrameTime[1]
                     ELSE minFrameTime
        left == currentPosition.left
        top == currentPosition.top
        length == getScrollLength
        af == adjustedFriction(timeDelta)
        xDelta == IF scrolling = Null THEN 0 ELSE Delta(scrolling[1], af)
        yDelta == IF scrolling = Null THEN 0 ELSE Delta(scrolling[2], af)
        x1 == NextVelocity(Pending(1), xDelta, left, length.width)
        y1 == NextVelocity(Pending(2), yDelta, top, length.height)
        scrolling1 == IF scrolling = Null \/ (x1 = 0 /\ y1 = 0) THEN Null
                      ELSE <<x1, y1>>
        leftBy == xDelta + (IF gliding = Null THEN 0 ELSE GlideBy(gliding[1], timeDelta))
        topBy == yDelta + (IF gliding = Null THEN 0 ELSE GlideBy(gliding[2], timeDelta))
        position == [left |-> clamp(0, left + leftBy, length.width),
                     top |-> clamp(0, top + topBy, length.height)]
        r == requestRender(Null, pending \ {h})
    IN  /\ scrolling' = scrolling1
        /\ currentPosition' = position
        /\ element' = position
        /\ lastOp' = <<"render">>
        /\ IF gliding # Null \/ scrolling1 # Null
           THEN /\ lastFrameTime' = Some(Origin)
                /\ frameId' = r.frameId
                /\ pending' = r.pending
           ELSE /\ lastFrameTime' = Null
                /\ frameId' = Null
                /\ pending' = pending \ {h}
        /\ UNCHANGED <<scrollLength, probeVars, wheelVars, optionVars, listening,
                       disposed, friction, gliding>>

\* render without the return of line 144
renderWhenDisposed(h, time) == renderFrame(h, time)

renderClearsFrameId(h, time) ==
    IF disposed
    THEN /\ pending' = pending \ {h}
         /\ frameId' = Null
         /\ lastOp' = <<"render", "inert">>
         /\ UNCHANGED <<element, scrollLength, probeVars, wheelVars, optionVars,
                        listening, disposed, friction, currentPosition, scrolling,
                        gliding, lastFrameTime>>
    ELSE renderFrame(h, time)

\* render (lines 143-185); lastOp records whether it came to setPosition
render(h, time) ==
    IF disposed
    THEN /\ pending' = pending \ {h}
         /\ lastOp' = <<"render", "inert">>
         /\ UNCHANGED <<element, scrollLength, probeVars, wheelVars, optionVars,
                        listening, disposed, motionVars>>
    ELSE renderFrame(h, time)

-----------------------------------------------------------------------------
(* The host and the callers *)

\* line 242
WheelThreshold == 300

\* Date.now() when the page loads, long after the epoch
StartDate == 4 * WheelThreshold

\* makeScroller (lines 97-124) with friction, handleWheel and flipWheel options
\* from the given sets, once the frame-time probe has left minFrameTime
InitWith(frictions, minFrameTimes, handleWheels, flipWheels, wheelFrictions) ==
    /\ scrollLength \in InitialLengths
    /\ element \in InitialOffsets
    /\ pending = {}
    /\ minFrameTime \in minFrameTimes
    /\ frames = 0
    /\ probeLastFrameTime = 0
    /\ probePending = FALSE
    /\ lastGlobalWheel = 0
    /\ ignoreEvent = Null
    /\ dateNow = StartDate
    /\ selfFriction \in frictions
    /\ wheelFriction \in wheelFrictions
    /\ flipWheel \in flipWheels
    /\ doHandleWheel \in handleWheels
    /\ listening = TRUE
    /\ disposed = FALSE
    /\ friction = selfFriction
    /\ currentPosition = getPosition
    /\ scrolling = Null
    /\ gliding = Null
    /\ frameId = Null
    /\ lastFrameTime = Null
    /\ lastOp = <<"makeScroller">>
    /\ calls = 0
    /\ goal = <<Null, Null>>

Init ==
    InitWith(SelfFrictions, MinFrameTimes, {FALSE}, {FALSE}, {DefaultWheelFriction})

NoGoal == <<Null, Null>>

Called == calls < MaxCalls /\ calls' = calls + 1

ScrollTo ==
    \E left \in LeftTargets, top \in TopTargets, fopt \in FrictionOptions :
        /\ scrollTo(left, top, fopt)
        /\ UNCHANGED wheelVars
        /\ Called
        /\ lastOp' = <<"scrollTo">>
        /\ goal' = NoGoal

ScrollBy ==
    \E left \in LeftDeltas, top \in TopDeltas, fopt \in FrictionOptions :
        /\ scrollBy(left, top, fopt)
        /\ UNCHANGED wheelVars
        /\ Called
        /\ lastOp' = <<"scrollBy">>
        /\ goal' = NoGoal

\* lastOp keeps the arguments and the gliding vector the call found
Glide ==
    \E left \in LeftSpeeds, top \in TopSpeeds :
        /\ glide(left, top)
        /\ Called
        /\ lastOp' = <<"glide", left, top, gliding>>
        /\ goal' = NoGoal

\* lastOp keeps whether the call found a frame request outstanding
Stop ==
    /\ stop
    /\ Called
    /\ lastOp' = <<"stop", pending # {}>>
    /\ goal' = NoGoal

Dispose ==
    /\ dispose
    /\ Called
    /\ lastOp' = <<"dispose">>
    /\ goal' = NoGoal

\* the host runs a requested frame callback
Frame ==
    \E h \in pending, gap \in FrameGaps :
        /\ render(h, Origin + gap)
        /\ UNCHANGED <<calls, goal>>

\* the surface's scroll notification reaches the listener of line 124
ScrollEvent ==
    /\ listening
    /\ handleScroll
    /\ Called
    /\ lastOp' = <<"handleScroll">>
    /\ goal' = NoGoal

\* another agent scrolls the surface
SurfaceScroll ==
    \E offsets \in Offsets :
        /\ offsets # element
        /\ offsets.left <= scrollLength.width
        /\ offsets.top <= scrollLength.height
        /\ element' = offsets
        /\ Called
        /\ lastOp' = <<"surface">>
        /\ goal' = NoGoal
        /\ UNCHANGED <<scrollLength, pending, probeVars, wheelVars, optionVars,
                       listening, disposed, motionVars>>

\* the surface or its content is resized; the host keeps the offsets in range
Resize ==
    \E length \in Lengths :
        /\ length # scrollLength
        /\ scrollLength' = length
        /\ element' = [left |-> min(element.left, length.width),
                       top |-> min(element.top, length.height)]
        /\ Called
        /\ lastOp' = <<"resize">>
        /\ goal' = NoGoal
        /\ UNCHANGED <<pending, probeVars, wheelVars, optionVars,
                       listening, disposed, motionVars>>

Next ==
    \/ ScrollTo
    \/ ScrollBy
    \/ Glide
    \/ Stop
    \/ Dispose
    \/ Frame
    \/ ScrollEvent
    \/ SurfaceScroll
    \/ Resize

Spec == Init /\ [][Next]_vars

-----------------------------------------------------------------------------
(* scrollTo calls one right after the other, at the instance's friction,   *)
(* and then only frames, at a steady 60 per second: goal keeps the clamped  *)
(* coordinates the calls asked for                                          *)

TargetScrollTo ==
    \E left \in LeftTargets, top \in TopTargets :
        /\ lastOp[1] \in {"makeScroller", "scrollTo"}
        /\ scrollTo(left, top, Null)
        /\ UNCHANGED wheelVars
        /\ Called
        /\ lastOp' = <<"scrollTo">>
        /\ goal' = <<IF left = Null THEN goal[1]
                     ELSE Some(clamp(0, left[1], scrollLength.width)),
                     IF top = Null THEN goal[2]
                     ELSE Some(clamp(0, top[1], scrollLength.height))>>

SteadyFrame ==
    \E h \in pending :
        /\ render(h, Origin + STANDARD_FRAME_TIME)
        /\ UNCHANGED <<calls, goal>>

TargetInit ==
    InitWith({DefaultFriction, 10}, {STANDARD_FRAME_TIME}, {FALSE}, {FALSE},
             {DefaultWheelFriction})

TargetNext ==
    \/ TargetScrollTo
    \/ SteadyFrame

TargetSpec == TargetInit /\ [][TargetNext]_vars

-----------------------------------------------------------------------------
(* One scrollBy, with or without a glide started before it, and then only   *)
(* frames.  The host runs every frame callback it was asked for.            *)

LiveFrictions == {1, DefaultFriction, 10, 19}

LiveInit ==
    InitWith(LiveFrictions, MinFrameTimes, {FALSE}, {FALSE}, {DefaultWheelFriction})

GlideFirst == lastOp[1] = "makeScroller" /\ Glide

ScrollByOnce == lastOp[1] \in {"makeScroller", "glide"} /\ ScrollBy

LiveNext ==
    \/ GlideFirst
    \/ ScrollByOnce
    \/ Frame

LiveSpec == LiveInit /\ [][LiveNext]_vars /\ WF_vars(Frame)

-----------------------------------------------------------------------------
(* Wheel events: lines 35-39 and 239-253 *)

WheelDeltas == {0, 2 * Px}
ClockSteps == {149, 151}

interceptsAlways == TRUE

\* line 242: handleWheel goes on to intercept
intercepts == ~(dateNow - lastGlobalWheel < WheelThreshold)

globalWheelAlways(event, ignore) == dateNow

\* line 38: lastGlobalWheel after the window listener has seen event
globalWheel(event, ignore) ==
    IF Some(event) # ignore THEN dateNow ELSE lastGlobalWheel

\* a new event object: not the one ignoreEvent holds
NewEvent == IF ignoreEvent = Some(1) THEN 2 ELSE 1

\* a wheel event on the surface: handleWheel (lines 239-253), if it is
\* bound, and then the window listener; lastOp keeps whether preventDefault
\* was called, and the deltas
WheelOnElement ==
    \E deltaX \in WheelDeltas, deltaY \in WheelDeltas :
        LET event == NewEvent
        IN  /\ IF listening /\ doHandleWheel /\ intercepts
               THEN /\ ignoreEvent' = Some(event)
                    /\ IF flipWheel
                       THEN scrollBy(Some(deltaY), Some(deltaX), Some(wheelFriction))
                       ELSE scrollBy(Some(deltaX), Some(deltaY), Some(wheelFriction))
                    /\ lastGlobalWheel' = globalWheel(event, Some(event))
                    /\ lastOp' = <<"wheel", TRUE, deltaX, deltaY>>
               ELSE /\ ignoreEvent' = ignoreEvent
                    /\ lastGlobalWheel' = globalWheel(event, ignoreEvent)
                    /\ lastOp' = <<"wheel", FALSE, deltaX, deltaY>>
                    /\ UNCHANGED <<hostVars, probeVars, optionVars, listening,
                                   disposed, motionVars>>
            /\ dateNow' = dateNow
            /\ Called
            /\ goal' = goal

\* a wheel event elsewhere on the page: the window listener alone
WheelElsewhere ==
    /\ lastGlobalWheel' = globalWheel(NewEvent, ignoreEvent)
    /\ lastOp' = <<"wheelElsewhere">>
    /\ UNCHANGED <<hostVars, probeVars, ignoreEvent, dateNow, optionVars, listening,
                   disposed, motionVars, calls, goal>>

ClockAdvance ==
    \E step \in ClockSteps :
        /\ dateNow + step <= MaxDate
        /\ dateNow' = dateNow + step
        /\ lastOp' = <<"clock">>
        /\ UNCHANGED <<hostVars, probeVars, lastGlobalWheel, ignoreEvent, optionVars,
                       listening, disposed, motionVars, calls, goal>>

WheelInit ==
    InitWith({10}, {STANDARD_FRAME_TIME}, {TRUE}, BOOLEAN, {0, DefaultWheelFriction})

WheelNext ==
    \/ WheelOnElement
    \/ WheelElsewhere
    \/ ClockAdvance
    \/ SteadyFrame
    \/ Dispose

WheelSpec == WheelInit /\ [][WheelNext]_vars

-----------------------------------------------------------------------------
(* Calls with their arguments on record: lastOp keeps what scrollTo and     *)
(* scrollBy were called with; frames come at a steady 60 per second, so the *)
(* elapsed time of a frame is a function of the state                       *)

\* options.friction of a call: none, 0, 0.5
CallFrictions == {Null, Some(0), Some(10)}

CallScrollTo ==
    \E left \in LeftTargets, top \in TopTargets, fopt \in CallFrictions :
        /\ scrollTo(left, top, fopt)
        /\ UNCHANGED wheelVars
        /\ Called
        /\ lastOp' = <<"scrollTo", left, top, fopt>>
        /\ goal' = NoGoal

CallScrollBy ==
    \E left \in LeftDeltas, top \in TopDeltas, fopt \in CallFrictions :
        /\ scrollBy(left, top, fopt)
        /\ UNCHANGED wheelVars
        /\ Called
        /\ lastOp' = <<"scrollBy", left, top, fopt>>
        /\ goal' = NoGoal

CallInit ==
    InitWith({DefaultFriction}, {STANDARD_FRAME_TIME}, {FALSE}, {FALSE},
             {DefaultWheelFriction})

CallNext ==
    \/ CallScrollTo
    \/ CallScrollBy
    \/ Glide
    \/ Stop
    \/ Dispose
    \/ Resize
    \/ SteadyFrame

CallSpec == CallInit /\ [][CallNext]_vars

\* line 146 for a frame that comes STANDARD_FRAME_TIME after the last one
SteadyTimeDelta ==
    IF lastFrameTime # Null THEN Origin + STANDARD_FRAME_TIME - lastFrameTime[1]
    ELSE minFrameTime

-----------------------------------------------------------------------------
(* The frame-time probe: lines 18-29 *)

\* line 20
ProbeFrames == 100
\* line 21: -100 ms in ticks
ProbeStart == -12
\* the time between two of the host's frame timestamps, in ticks
ProbeGaps == {0, 1, STANDARD_FRAME_TIME, 3}

\* frameTimeLoop (lines 22-27) at timestamp time
frameTimeLoop(time) ==
    LET frameTime == time - probeLastFrameTime
    IN  /\ minFrameTime' = IF frameTime < minFrameTime THEN frameTime ELSE minFrameTime
        /\ probeLastFrameTime' = Origin
        /\ frames' = frames - 1
        /\ probePending' = (frames > 0)

\* the module is loaded (lines 18-39) and an instance made (lines 97-124)
ProbeInit ==
    /\ scrollLength \in InitialLengths
    /\ element \in InitialOffsets
    /\ pending = {}
    /\ minFrameTime = STANDARD_FRAME_TIME
    /\ frames = ProbeFrames
    /\ probeLastFrameTime = ProbeStart
    /\ probePending = TRUE
    /\ lastGlobalWheel = 0
    /\ ignoreEvent = Null
    /\ dateNow = StartDate
    /\ selfFriction = DefaultFriction
    /\ wheelFriction = DefaultWheelFriction
    /\ flipWheel = FALSE
    /\ doHandleWheel = FALSE
    /\ listening = TRUE
    /\ disposed = FALSE
    /\ friction = selfFriction
    /\ currentPosition = getPosition
    /\ scrolling = Null
    /\ gliding = Null
    /\ frameId = Null
    /\ lastFrameTime = Null
    /\ lastOp = <<"makeScroller">>
    /\ calls = 0
    /\ goal = <<Null, Null>>

\* the host runs the probe's frame callback
ProbeFrame ==
    \E gap \in ProbeGaps :
        /\ probePending
        /\ frameTimeLoop(Origin + gap)
        /\ lastOp' = <<"frameTimeLoop">>
        /\ UNCHANGED <<hostVars, wheelVars, optionVars, listening, disposed,
                       motionVars, calls, goal>>

\* one scrollBy, at any time during or after the probe
ProbeScrollBy ==
    /\ lastOp[1] \in {"makeScroller", "frameTimeLoop"}
    /\ scrollBy(Some(2 * Px), Null, Null)
    /\ UNCHANGED <<wheelVars, goal>>
    /\ Called
    /\ lastOp' = <<"scrollBy">>

ProbeNext ==
    \/ ProbeFrame
    \/ ProbeScrollBy
    \/ SteadyFrame

ProbeSpec == ProbeInit /\ [][ProbeNext]_vars

-----------------------------------------------------------------------------
(* Properties *)

Wrote == lastOp = <<"render">>

\* C1: every position a frame callback writes lies within [0, width] x
\* [0, height] for the scrollable lengths read in that frame, and is the
\* position the surface then shows.
C1_WrittenPositionInRange ==
    Wrote =>
        /\ isWithin(0, currentPosition.left, scrollLength.width)
        /\ isWithin(0, currentPosition.top, scrollLength.height)
        /\ element = currentPosition

\* a frame has held the position at the far end of a surface that shrank
\* while a glide kept pushing
C1_Witness ==
    /\ Wrote
    /\ scrollLength.width = 2 * Px
    /\ currentPosition.left = scrollLength.width
    /\ gliding # Null
    /\ gliding[1] > 0

\* the scrolling motion has cleared and nothing is scheduled
Settled == scrolling = Null /\ pending = {}

\* C2 as claimed: once the motion has cleared, the committed left is exactly
\* the clamped target of the last scrollTo (and within the width).
C2_SettlesAtTarget ==
    (Settled /\ Wrote /\ goal[1] # Null) =>
        /\ currentPosition.left = goal[1][1]
        /\ currentPosition.left <= scrollLength.width

\* C3: a scrolling motion is always cleared in the end, and a frame that
\* leaves neither motion leaves no frame request.
C3_ScrollingEnds ==
    /\ (scrolling # Null) ~> (scrolling = Null)
    /\ [](Wrote /\ scrolling = Null /\ gliding = Null
            => pending = {} /\ frameId = Null)

\* a motion at the default friction has decayed over several frames, clear
\* of both ends, and nothing is scheduled
C3_Witness ==
    /\ Wrote
    /\ Settled
    /\ gliding = Null
    /\ friction = DefaultFriction
    /\ currentPosition.left > 0
    /\ currentPosition.left < 2 * Px

\* C4 as claimed: with friction 0 in effect a frame leaves the scrolling
\* vector as it found it.
C4_ZeroFrictionKeepsVector ==
    [][(/\ friction = 0
        /\ minFrameTime = STANDARD_FRAME_TIME
        /\ scrolling # Null
        /\ scrolling # <<0, 0>>
        /\ lastOp' = <<"render">>) => scrolling' = scrolling]_vars

C6_StopClears ==
    [][lastOp'[1] = "stop" =>
        /\ pending' = {}
        /\ frameId' = Null
        /\ scrolling' = Null
        /\ gliding' = Null
        /\ lastFrameTime' = Null
        /\ currentPosition' = currentPosition
        /\ element' = element
        /\ stopped(frameId', pending') =
               [pending |-> pending', frameId |-> frameId',
                lastFrameTime |-> lastFrameTime', gliding |-> gliding',
                scrolling |-> scrolling']]_vars

\* stop() cancelled a frame request in the middle of a motion
C6_Witness ==
    /\ lastOp = <<"stop", TRUE>>
    /\ pending = {}
    /\ currentPosition \notin Offsets
    /\ currentPosition.left \notin {0, scrollLength.width}

\* C7: once disposed, no frame callback writes a position: the cached
\* position and the surface change only by another agent's doing.
C7_NoWriteAfterDispose ==
    [][disposed =>
        /\ lastOp' # <<"render">>
        /\ currentPosition' = currentPosition
        /\ (lastOp'[1] \notin {"surface", "resize"} => element' = element)]_vars

\* a frame callback requested after dispose() has run
C7_Witness ==
    /\ disposed
    /\ lastOp = <<"render", "inert">>
    /\ scrolling # Null

\* C8: at most one frame request is outstanding.
C8_SingleFlight == Cardinality(pending) <= 1

\* glide() was called while the request of an earlier frame was outstanding
C8_Witness ==
    /\ lastOp[1] = "glide"
    /\ lastFrameTime # Null
    /\ Cardinality(pending) = 1

\* C9: a wheel event on the surface of a listening instance, more than 300
\* ms after the last wheel event no instance intercepted, is intercepted:
\* preventDefault, and scrollBy with its deltas (swapped under flipWheel)
\* and wheelFriction; one less than 300 ms after is left alone.
C9_WheelArbitration ==
    [][(lastOp'[1] = "wheel" /\ listening) =>
        LET left == IF flipWheel THEN lastOp'[4] ELSE lastOp'[3]
            top == IF flipWheel THEN lastOp'[3] ELSE lastOp'[4]
        IN  /\ dateNow - lastGlobalWheel > WheelThreshold =>
                /\ lastOp'[2] = TRUE
                /\ scrolling' = <<Pending(1) + left, Pending(2) + top>>
                /\ friction' = IF wheelFriction # 0 THEN wheelFriction ELSE selfFriction
                /\ pending' # {}
                /\ lastGlobalWheel' = lastGlobalWheel
            /\ dateNow - lastGlobalWheel < WheelThreshold =>
                /\ lastOp'[2] = FALSE
                /\ UNCHANGED <<motionVars, pending, element>>]_vars

\* an event was intercepted more than 300 ms after a foreign one, while a
\* motion was in flight
C9_Witness ==
    /\ lastOp[1] = "wheel"
    /\ lastOp[2] = TRUE
    /\ lastGlobalWheel > 0
    /\ dateNow - lastGlobalWheel > WheelThreshold
    /\ lastFrameTime # Null

\* C10: a scroll notification sets the cached position to the surface's
\* live offsets when no frame request is outstanding and leaves it unchanged
\* when one is; a frame that has no motion to apply writes the cached
\* position, not the live offsets.
C10_ScrollSync ==
    [][/\ lastOp'[1] = "handleScroll" =>
            /\ pending = {} => currentPosition' = getPosition
            /\ pending # {} => currentPosition' = currentPosition
       /\ (lastOp' = <<"render">> /\ scrolling = Null /\ gliding = <<0, 0>>) =>
            /\ currentPosition'.left = clamp(0, currentPosition.left, scrollLength.width)
            /\ currentPosition'.top = clamp(0, currentPosition.top, scrollLength.height)
      ]_vars

\* a notification arrived while a frame request was outstanding and the
\* cached position was kept
C10_Witness ==
    /\ lastOp = <<"handleScroll">>
    /\ pending # {}
    /\ currentPosition # element

\* C11: right after scrollTo, on each axis the call names (0 included), the
\* cached position plus the pending scrolling velocity is the coordinate
\* clamped to the length read at the call; on an axis it does not name the
\* pending velocity is what it was (0 if there was none); the cached position
\* is not touched.
C11_ScrollToTarget ==
    [][lastOp'[1] = "scrollTo" =>
        /\ lastOp'[2] # Null =>
              currentPosition'.left + scrolling'[1]
                  = clamp(0, lastOp'[2][1], scrollLength.width)
        /\ lastOp'[2] = Null => scrolling'[1] = Pending(1)
        /\ lastOp'[3] # Null =>
              currentPosition'.top + scrolling'[2]
                  = clamp(0, lastOp'[3][1], scrollLength.height)
        /\ lastOp'[3] = Null => scrolling'[2] = Pending(2)
        /\ currentPosition' = currentPosition]_vars

\* scrollTo({left: 0}) was called with a motion in flight: the pending x
\* velocity now leads to 0 and the y velocity is the one in flight
C11_Witness ==
    /\ lastOp[1] = "scrollTo"
    /\ lastOp[2] = Some(0)
    /\ lastOp[3] = Null
    /\ lastFrameTime # Null
    /\ currentPosition.left > 0
    /\ scrolling[1] = -currentPosition.left
    /\ scrolling[2] # 0

\* C12 as claimed: after every scrollBy a frame request is outstanding.
C12_AlwaysRequests ==
    [][lastOp'[1] = "scrollBy" => pending' # {}]_vars

\* C12, amended: scrollBy adds its deltas to the pending velocity (0 if
\* none), so two calls in a row from rest leave the sum of their deltas; a
\* frame request is outstanding after the call unless the instance is
\* disposed.
C12_ScrollByComposes ==
    [][lastOp'[1] = "scrollBy" =>
        /\ scrolling' = <<Pending(1) + OrZero(lastOp'[2]),
                          Pending(2) + OrZero(lastOp'[3])>>
        /\ (lastOp[1] = "scrollBy" /\ calls = 1) =>
              scrolling' = <<OrZero(lastOp[2]) + OrZero(lastOp'[2]),
                             OrZero(lastOp[3]) + OrZero(lastOp'[3])>>
        /\ ~disposed => pending' # {}]_vars

\* scrollBy added to a velocity that frames had already decayed
C12_Witness ==
    /\ lastOp[1] = "scrollBy"
    /\ lastOp[2] # Null
    /\ ~disposed
    /\ lastFrameTime # Null
    /\ scrolling[1] \notin {0, lastOp[2][1]}
    /\ pending # {}

\* C13 as claimed: while a scrolling motion is under way, a call without a
\* friction of its own leaves the friction in effect as it is.
C13_OverrideOutlivesCalls ==
    [][(/\ lastFrameTime # Null
        /\ scrolling # Null
        /\ lastOp'[1] \in {"scrollBy", "scrollTo"}
        /\ lastOp'[4] = Null) => friction' = friction]_vars

\* C13, amended: every scrollBy / scrollTo sets the friction in effect anew,
\* to the friction it was given if that is not 0 and to the instance's
\* friction otherwise, whether or not a motion is under way; nothing else
\* changes it.
C13_FrictionPerCall ==
    [][/\ lastOp'[1] \in {"scrollBy", "scrollTo"} =>
            friction' = IF lastOp'[4] \in {Null, Some(0)} THEN selfFriction
                        ELSE lastOp'[4][1]
       /\ lastOp'[1] \notin {"scrollBy", "scrollTo"} => friction' = friction]_vars

\* a call without a friction of its own brought the instance's friction back
\* in the middle of a motion
C13_Witness ==
    /\ lastOp[1] \in {"scrollBy", "scrollTo"}
    /\ lastOp[4] = Null
    /\ lastFrameTime # Null
    /\ friction = selfFriction
    /\ calls >= 2
    /\ scrolling[1] # 0

\* C14: a frame whose scrolling step on an axis would leave [0, length]
\* commits a position within the range on that axis and leaves no scrolling
\* velocity on it; and with no scrolling velocity on an axis, no glide and the
\* position within the range, a frame leaves the position on that axis as it
\* is.
C14_BoundaryZeroesVelocity ==
    [][lastOp' = <<"render">> =>
        LET af == clamp(0, friction * SteadyTimeDelta, AdjustedUnit)
            xDelta == Round(Pending(1) * af, AdjustedUnit)
            yDelta == Round(Pending(2) * af, AdjustedUnit)
            left == currentPosition.left
            top == currentPosition.top
            length == scrollLength
        IN  /\ ~isWithin(0, left + xDelta, length.width) =>
                /\ isWithin(0, currentPosition'.left, length.width)
                /\ gliding = Null => currentPosition'.left \in {0, length.width}
                /\ scrolling' = Null \/ scrolling'[1] = 0
            /\ ~isWithin(0, top + yDelta, length.height) =>
                /\ isWithin(0, currentPosition'.top, length.height)
                /\ gliding = Null => currentPosition'.top \in {0, length.height}
                /\ scrolling' = Null \/ scrolling'[2] = 0
            /\ (Pending(1) = 0 /\ gliding = Null /\ isWithin(0, left, length.width)) =>
                /\ currentPosition'.left = left
                /\ scrolling' = Null \/ scrolling'[1] = 0
            /\ (Pending(2) = 0 /\ gliding = Null /\ isWithin(0, top, length.height)) =>
                /\ currentPosition'.top = top
                /\ scrolling' = Null \/ scrolling'[2] = 0]_vars

\* a frame has stopped the x motion at the far end while the y motion goes on
C14_Witness ==
    /\ Wrote
    /\ gliding = Null
    /\ scrolling # Null
    /\ scrolling[1] = 0
    /\ scrolling[2] # 0
    /\ currentPosition.left = scrollLength.width
    /\ scrollLength.width > 0

\* C15: an intercepted wheel event leaves lastGlobalWheel as it is; only a
\* wheel event that was not intercepted changes it; so a wheel event right
\* after an intercepted one is intercepted, and time passing does not end the
\* interception.
C15_InterceptedNotForeign ==
    [][/\ (lastOp'[1] = "wheel" /\ lastOp'[2] = TRUE) =>
            /\ lastGlobalWheel' = lastGlobalWheel
            /\ ignoreEvent' # Null
       /\ lastGlobalWheel' # lastGlobalWheel =>
            \/ lastOp' = <<"wheelElsewhere">>
            \/ lastOp'[1] = "wheel" /\ lastOp'[2] = FALSE
       /\ (lastOp[1] = "wheel" /\ lastOp[2] = TRUE /\ lastOp'[1] = "wheel" /\ listening) =>
            lastOp'[2] = TRUE
       /\ (intercepts /\ lastOp' = <<"clock">>) => intercepts']_vars

\* a second event of a gesture was intercepted, a while after the first, and
\* no wheel event was ever taken for a foreign one
C15_Witness ==
    /\ lastOp[1] = "wheel"
    /\ lastOp[2] = TRUE
    /\ ignoreEvent = Some(2)
    /\ lastGlobalWheel = 0
    /\ dateNow > StartDate
    /\ calls = 2

\* C16 as claimed: on a disposed instance, a call made while no frame request
\* is outstanding leaves one outstanding.
C16_AlwaysRearms ==
    [][(/\ disposed
        /\ pending = {}
        /\ lastOp'[1] \in {"scrollBy", "scrollTo", "glide"}) => pending' # {}]_vars

\* C16, amended: on a disposed instance, a call made while no frame request
\* is outstanding requests one exactly when frameId is null; the frame
\* callback then returns at once: it writes nothing and leaves frameId set.
C16_RearmsWhileFrameIdNull ==
    [][disposed =>
        /\ (pending = {} /\ lastOp'[1] \in {"scrollBy", "scrollTo", "glide"}) =>
              (pending' # {} <=> frameId = Null)
        /\ lastOp'[1] = "render" =>
              /\ lastOp' = <<"render", "inert">>
              /\ frameId' = frameId
              /\ frameId # Null
              /\ pending' = {}
              /\ element' = element
              /\ currentPosition' = currentPosition]_vars

\* a call on a disposed instance after its idle frame: nothing is requested
C16_Witness ==
    /\ disposed
    /\ lastOp[1] \in {"scrollBy", "scrollTo", "glide"}
    /\ pending = {}
    /\ frameId # Null

\* C17: frames, scrollBy and scrollTo leave the gliding vector as it is,
\* glide leaves the scrolling vector as it is, and a frame with both moves
\* the position, before clamping, by the scrolling step plus the gliding
\* speed times the elapsed time.
C17_GlideAndScrollSum ==
    [][/\ lastOp'[1] \in {"render", "scrollBy", "scrollTo"} => gliding' = gliding
       /\ lastOp'[1] = "glide" => scrolling' = scrolling
       /\ (lastOp' = <<"render">> /\ scrolling # Null /\ gliding # Null) =>
            LET timeDelta == SteadyTimeDelta
                af == clamp(0, friction * timeDelta, AdjustedUnit)
                leftBy == Round(scrolling[1] * af, AdjustedUnit)
                          + Round(gliding[1] * timeDelta, Second)
                topBy == Round(scrolling[2] * af, AdjustedUnit)
                         + Round(gliding[2] * timeDelta, Second)
            IN  /\ currentPosition'.left
                     = clamp(0, currentPosition.left + leftBy, scrollLength.width)
                /\ currentPosition'.top
                     = clamp(0, currentPosition.top + topBy, scrollLength.height)]_vars

\* a frame has applied a scrolling step and a glide together, clear of the ends
C17_Witness ==
    /\ Wrote
    /\ gliding # Null
    /\ gliding[1] # 0
    /\ scrolling # Null
    /\ scrolling[1] < 0
    /\ currentPosition.left > 0
    /\ currentPosition.left < scrollLength.width
    /\ currentPosition.left \notin {2 * Px, 3 * Px}

\* C18: on an instance not disposed, a frame request is outstanding exactly
\* when there is a scrolling or a gliding vector, and a lastFrameTime is
\* recorded only while one is outstanding; the calls that start a run leave
\* lastFrameTime alone, so the first frame of a run finds none.
C18_RequestIffMotion ==
    /\ [](~disposed =>
            /\ (pending # {}) <=> (scrolling # Null \/ gliding # Null)
            /\ lastFrameTime # Null => pending # {})
    /\ [][lastOp'[1] \in {"scrollBy", "scrollTo", "glide"} =>
            lastFrameTime' = lastFrameTime]_vars

\* a new run was started after an earlier one had moved the surface and ended
C18_Witness ==
    /\ ~disposed
    /\ lastOp[1] \in {"scrollBy", "scrollTo", "glide"}
    /\ calls >= 2
    /\ lastFrameTime = Null
    /\ pending # {}
    /\ currentPosition \notin Offsets

\* C19 as claimed: a frame that finds no scrolling motion and a gliding
\* vector of zero speeds leaves no frame request outstanding.
C19_IdleAfterZeroGlide ==
    [][(/\ lastOp' = <<"render">>
        /\ scrolling = Null
        /\ gliding = <<0, 0>>) => pending' = {}]_vars

\* C20 as claimed: the fallback delta is strictly positive.
C20_FallbackPositive == minFrameTime > 0

=============================================================================
